---- MODULE Spec2Model ----
(***************************************************************************)
(* A model of simple::vector (include/simple/vector.h).                    *)
(*                                                                         *)
(* Memory is a heap of blocks handed out by the allocator.  A pointer is   *)
(* a block together with an element offset; the three pointers of a        *)
(* vector always point into the block of m_begin, so m_begin is kept as    *)
(* the block (Null for nullptr) and m_end / m_realend as offsets from it.  *)
(* Every public member function is one action; the calls it makes are      *)
(* operators on a machine record M (heap, vectors, injected fault,         *)
(* exception in flight, return value).                                     *)
(***************************************************************************)
EXTENDS Integers, Sequences, FiniteSets, TLC

VARIABLES heap, vec, cfg, last, trail, log

vars == <<heap, vec, cfg, last, trail, log>>

(***************************************************************************)
(* Bounds                                                                  *)
(***************************************************************************)
MaxSize == 4      \* max_size() of the allocator in the general specifications
PushMax == 8      \* max_size() of the allocator in the push_back-only specification
AssignMax == 3    \* max_size() of the allocator in the two-vector specification
MaxBlocks == 3    \* blocks that exist at the same time (two vectors and one tmp)
MaxFault == 3     \* a fault is injected at one of the first MaxFault fallible steps

NoFault == MaxFault + 1

Vecs == {"a", "b"}
Allocs == {"A1", "A2"}
Values == {"x", "y"}
Default == "d"          \* a value-initialised element
MovedFrom == "mf"       \* a live element that has been moved from
Raw == "raw"            \* storage without a constructed element
Garbage == "gb"         \* what an out-of-bounds write may leave behind
Null == 0
Blocks == 1..MaxBlocks
Largest(S) == CHOOSE n \in S : \A m \in S : m <= n
Idx == 0..Largest({MaxSize, PushMax, AssignMax})
Slot == Values \cup {Default, MovedFrom, Raw, Garbage}

RawSlots == [i \in Idx |-> Raw]
NoBlock == [st |-> "unused", n |-> 0, al |-> "A1", slots |-> RawSlots]

(***************************************************************************)
(* The types the template is instantiated with: the allocator's            *)
(* propagation traits and max_size(), and whether the element's move       *)
(* constructor is noexcept.                                                *)
(***************************************************************************)
Traits ==
  { [iae |-> TRUE,  pocca |-> FALSE, pocma |-> TRUE,  pocs |-> FALSE],
    [iae |-> FALSE, pocca |-> FALSE, pocma |-> FALSE, pocs |-> FALSE],
    [iae |-> FALSE, pocca |-> TRUE,  pocma |-> TRUE,  pocs |-> TRUE] }

Configs(ms) ==
  { [iae |-> t.iae, pocca |-> t.pocca, pocma |-> t.pocma, pocs |-> t.pocs,
     nothrow_move |-> nm, max_size |-> ms, trace |-> FALSE] : t \in Traits, nm \in BOOLEAN }

\* the same instantiations with the calls the vector makes on the allocator
\* recorded in `log'
Traced(C) == { [c EXCEPT !.trace = TRUE] : c \in C }

(***************************************************************************)
(* The machine record and its primitive steps                              *)
(***************************************************************************)
Machine(fuel, lands) ==
  [heap |-> heap, vec |-> vec, fuel |-> fuel, exc |-> "none", lands |-> lands, ret |-> 0,
   log |-> <<>>]

Ok(M) == M.exc = "none"

\* a step that may throw e: it throws when the injected fault is due
Tick(M, e) ==
  IF ~Ok(M) THEN M
  ELSE IF M.fuel = NoFault THEN M
  ELSE IF M.fuel = 0 THEN [M EXCEPT !.exc = e, !.fuel = NoFault]
  ELSE [M EXCEPT !.fuel = @ - 1]

\* catch (...) { handler; throw; }
Rethrow(M, e) == [M EXCEPT !.exc = e]
Caught(M) == [M EXCEPT !.exc = "none"]

\* a call on the allocator: e is the member called, b the block, i the count
\* or the slot; for deallocate, k is the number of elements of the block
\* that are constructed and not destroyed at that moment.  For allocate and
\* deallocate, al is the allocator the call is made on; st is the state the
\* block is in when the call is made
Constructed(M, p) ==
  IF p = Null THEN 0
  ELSE Cardinality({j \in Idx : j < M.heap[p].n /\ M.heap[p].slots[j] # Raw})

EventOn(M, e, al, st, b, i, k) ==
  [M EXCEPT !.log = Append(@, [e |-> e, b |-> b, i |-> i, k |-> k, al |-> al, st |-> st])]

Event(M, e, b, i, k) ==
  EventOn(M, e, "-", IF b \in Blocks THEN M.heap[b].st ELSE "none", b, i, k)

InBlock(M, p, i) == p # Null /\ M.heap[p].st = "live" /\ i >= 0 /\ i < M.heap[p].n

Load(M, p, i) == IF p # Null /\ i \in Idx THEN M.heap[p].slots[i] ELSE Garbage

Put(M, p, i, x) ==
  IF p # Null /\ i \in Idx THEN [M EXCEPT !.heap[p].slots[i] = x] ELSE M

\* a write of x through a pointer: outside the block it either lands or not
Store(M, p, i, x) ==
  IF InBlock(M, p, i) \/ x = Raw THEN Put(M, p, i, x)
  ELSE Put(M, p, i, IF M.lands THEN x ELSE Garbage)

size(vr) == vr.m_end
capacity(vr) == vr.m_realend
empty(vr) == size(vr) = 0
max_size == cfg.max_size

Referenced(M, b) == \E v \in Vecs : M.vec[v].m_begin = b
Free(M, b) == M.heap[b].st = "unused" \/ (M.heap[b].st = "freed" /\ ~Referenced(M, b))
FreshBlock(M) == CHOOSE b \in Blocks : Free(M, b) /\ \A c \in Blocks : c < b => ~Free(M, c)

\* for a count of 0 the allocator hands out a block of no elements with an
\* address of its own, as std::allocator does through ::operator new(0)
AllocTraits_allocate(M, al, n) ==
  IF ~Ok(M) THEN M
  ELSE IF n > cfg.max_size
  THEN EventOn([M EXCEPT !.exc = "bad_alloc"], "allocate", al, "none", Null, n, 0)
  ELSE LET T == Tick(M, "bad_alloc") IN
       IF ~Ok(T) THEN EventOn(T, "allocate", al, "none", Null, n, 0)
       ELSE LET b == FreshBlock(T) IN
            EventOn([T EXCEPT !.heap[b] = [st |-> "live", n |-> n, al |-> al, slots |-> RawSlots],
                              !.ret = b],
                    "allocate", al, "live", b, n, 0)

AllocTraits_deallocate(M, al, p, n) ==
  IF ~Ok(M) \/ p = Null THEN M
  ELSE EventOn([M EXCEPT !.heap[p].st = "freed", !.heap[p].slots = RawSlots],
               "deallocate", al, M.heap[p].st, p, n, Constructed(M, p))

AllocTraits_construct(M, p, i, x) ==
  LET T == Tick(M, "elem") IN IF ~Ok(T) THEN T ELSE Event(Store(T, p, i, x), "construct", p, i, 0)

AllocTraits_destroy(M, p, i) ==
  IF ~Ok(M) THEN M ELSE Event(Store(M, p, i, Raw), "destroy", p, i, 0)

allocate_tmp(M, v, n, al) ==
  LET A == AllocTraits_allocate(M, al, n) IN
  IF Ok(M) /\ ~Ok(A)
  THEN (IF n > max_size THEN Rethrow(A, "length_error") ELSE A)
  ELSE A

(***************************************************************************)
(* simple/container_algorithm.h: the range algorithms the vector calls.    *)
(* Each constructs [first, last) of block src into block dst from offset   *)
(* d on; when a construction throws, the elements it has constructed so    *)
(* far are destroyed again.  The returned pointer is the end of the        *)
(* constructed range.                                                      *)
(***************************************************************************)
RECURSIVE destroy_range(_, _, _, _)
destroy_range(M, p, first, lst) ==
  IF first >= lst THEN M
  ELSE destroy_range(AllocTraits_destroy(M, p, first), p, first + 1, lst)

RECURSIVE uninitialized_loop(_, _, _, _, _, _, _, _)
uninitialized_loop(M, move, src, i, lst, dst, d, d0) ==
  IF ~Ok(M) THEN M
  ELSE IF i >= lst THEN [M EXCEPT !.ret = d]
  ELSE LET x == Load(M, src, i)
           T == IF move /\ cfg.nothrow_move THEN M ELSE Tick(M, "elem")
       IN IF ~Ok(T)
          THEN Rethrow(destroy_range(Caught(T), dst, d0, d), T.exc)
          ELSE LET S1 == Event(Store(T, dst, d, x), "construct", dst, d, 0)
                   S2 == IF move THEN Put(S1, src, i, MovedFrom) ELSE S1
               IN uninitialized_loop(S2, move, src, i + 1, lst, dst, d + 1, d0)

uninitialized_copy(M, src, first, lst, dst, d) ==
  uninitialized_loop(M, FALSE, src, first, lst, dst, d, d)

uninitialized_move(M, src, first, lst, dst, d) ==
  uninitialized_loop(M, TRUE, src, first, lst, dst, d, d)

uninitialized_move_launder(M, src, first, lst, dst, d) ==
  uninitialized_loop(M, TRUE, src, first, lst, dst, d, d)

\* move when the move constructor is noexcept, else copy
uninitialized_move_if_noexcept_launder(M, src, first, lst, dst, d) ==
  uninitialized_loop(M, cfg.nothrow_move, src, first, lst, dst, d, d)

\* assigns [first, last) onto the slots from d on, last element first, as
\* the shift of a run one slot toward the tail needs
RECURSIVE move_if_noexcept_launder(_, _, _, _, _)
move_if_noexcept_launder(M, p, first, lst, d) ==
  IF ~Ok(M) \/ first >= lst THEN M
  ELSE LET i == lst - 1
           x == Load(M, p, i)
           T == IF cfg.nothrow_move THEN M ELSE Tick(M, "elem")
       IN IF ~Ok(T) THEN T
          ELSE LET S1 == Store(T, p, d + (i - first), x)
                   S2 == IF cfg.nothrow_move THEN Put(S1, p, i, MovedFrom) ELSE S1
               IN move_if_noexcept_launder(S2, p, first, i, d)

(***************************************************************************)
(* Removal and release                                                     *)
(***************************************************************************)
pop_back(M, v) ==
  IF ~Ok(M) THEN M
  ELSE LET D == AllocTraits_destroy(M, M.vec[v].m_begin, M.vec[v].m_end - 1)
       IN [D EXCEPT !.vec[v].m_end = @ - 1]

RECURSIVE clear(_, _)
clear(M, v) ==
  IF ~Ok(M) \/ empty(M.vec[v]) THEN M ELSE clear(pop_back(M, v), v)

\* if (m_begin) AllocTraitsT::deallocate(m_alloc, m_begin, capacity());
release(M, v) ==
  IF M.vec[v].m_begin # Null
  THEN AllocTraits_deallocate(M, M.vec[v].m_alloc, M.vec[v].m_begin, capacity(M.vec[v]))
  ELSE M

deallocate(M, v) == release(clear(M, v), v)

(***************************************************************************)
(* The pieces the reallocating member functions share.  Each function      *)
(* allocates tmp (state A, with A.ret the new block), fills it inside a    *)
(* try block and then makes it the vector's block.                         *)
(***************************************************************************)
\* m_begin = tmp; m_end = tmp + end; m_realend = tmp + realend;
set_pointers(M, v, tmp, end, realend) ==
  IF Ok(M)
  THEN [M EXCEPT !.vec[v].m_begin = tmp, !.vec[v].m_end = end, !.vec[v].m_realend = realend]
  ELSE M

\* AllocTraitsT::deallocate(m_alloc, m_begin, capacity()); m_begin = tmp; ...
\* (the old elements are not destroyed)
swap_in(M, v, tmp, end, realend) ==
  set_pointers(
    AllocTraits_deallocate(M, M.vec[v].m_alloc, M.vec[v].m_begin, capacity(M.vec[v])),
    v, tmp, end, realend)

\* deallocate(); m_begin = tmp; m_end = end; m_realend = ...
adopt(M, v, tmp, end, realend) == set_pointers(deallocate(M, v), v, tmp, end, realend)

\* the same with end the pointer the relocation returned
adopt_end(M, v, tmp, realend) == adopt(M, v, tmp, M.ret, realend)

\* catch (...) { deallocate tmp; throw; } around body B of a try block
\* entered in state M0
catch_release(M0, B, al, tmp, n) ==
  IF Ok(M0) /\ ~Ok(B)
  THEN Rethrow(AllocTraits_deallocate(Caught(B), al, tmp, n), B.exc)
  ELSE B

set_ret(M, r) == IF Ok(M) THEN [M EXCEPT !.ret = r] ELSE M

(***************************************************************************)
(* Insertion                                                               *)
(***************************************************************************)
\* ++m_end after the construction
bump_end(M, v) == IF Ok(M) THEN [M EXCEPT !.vec[v].m_end = @ + 1] ELSE M

\* if (m_end < m_realend) { construct(m_end, args...); ++m_end; }
emplace_back_spare(M, v, x) ==
  IF M.vec[v].m_end < M.vec[v].m_realend
  THEN bump_end(AllocTraits_construct(M, M.vec[v].m_begin, M.vec[v].m_end, x), v)
  ELSE M

\* the try block: the new value at tmp + oldsize, then the existing values
emplace_back_fill(M, v, tmp, oldsize, x) ==
  uninitialized_move_if_noexcept_launder(
    AllocTraits_construct(M, tmp, oldsize, x),
    M.vec[v].m_begin, 0, M.vec[v].m_end, tmp, 0)

\* try { ... } catch (...) { ... } and the swap, tmp allocated in state A
emplace_back_into(A, v, oldsize, newcap, x) ==
  swap_in(
    catch_release(A, emplace_back_fill(A, v, A.ret, oldsize, x),
                  A.vec[v].m_alloc, A.ret, newcap),
    v, A.ret, oldsize + 1, newcap)

\* auto oldsize = size(); auto newcap = size() * 2; auto tmp = allocate_tmp(...); ...
emplace_back_grow(M, v, x) ==
  emplace_back_into(
    allocate_tmp(M, v, size(M.vec[v]) * 2, M.vec[v].m_alloc),
    v, size(M.vec[v]), size(M.vec[v]) * 2, x)

\* emplace_back(args...): x is the value args construct; rv says that args
\* is an rvalue of the element type, which the first construction consumes.
\* The spare-capacity branch does not return: the reallocation follows it.
emplace_back(M, v, x, rv) ==
  emplace_back_grow(
    emplace_back_spare(M, v, x), v,
    IF M.vec[v].m_end < M.vec[v].m_realend /\ rv THEN MovedFrom ELSE x)

push_back(M, v, x, rv) == emplace_back(M, v, x, rv)

\* emplace_fill with the run after pos relocated to tmp + index, onto the
\* new element, instead of tmp + index + 1
emplace_fill_overlap(M, v, i, tmp, x) ==
  uninitialized_move_if_noexcept_launder(
    uninitialized_move_if_noexcept_launder(
      AllocTraits_construct(M, tmp, i, x),
      M.vec[v].m_begin, 0, i, tmp, 0),
    M.vec[v].m_begin, i, M.vec[v].m_end, tmp, i)

\* the try block of emplace: the new value at tmp + index, [m_begin, pos) to
\* tmp and [pos, m_end) to tmp + index + 1
emplace_fill(M, v, i, tmp, x) ==
  uninitialized_move_if_noexcept_launder(
    uninitialized_move_if_noexcept_launder(
      AllocTraits_construct(M, tmp, i, x),
      M.vec[v].m_begin, 0, i, tmp, 0),
    M.vec[v].m_begin, i, M.vec[v].m_end, tmp, i + 1)

\* try { ... } catch (...) { ... }, the swap and return m_begin + index
emplace_into(A, v, i, oldsize, newcap, x) ==
  set_ret(
    swap_in(
      catch_release(A, emplace_fill(A, v, i, A.ret, x),
                    A.vec[v].m_alloc, A.ret, newcap),
      v, A.ret, oldsize + 1, newcap),
    i)

\* emplace(pos, args...) with pos == m_begin + i, when m_end == m_realend
emplace_realloc(M, v, i, x) ==
  emplace_into(
    allocate_tmp(M, v, size(M.vec[v]) * 2, M.vec[v].m_alloc),
    v, i, size(M.vec[v]), size(M.vec[v]) * 2, x)

\* *pos = std::move_if_noexcept(tmp); a copy assignment may throw
assign_at(M, p, i, x) ==
  IF Ok(M) THEN Store(M, p, i, x) ELSE M

may_throw_copy(M) == IF cfg.nothrow_move THEN M ELSE Tick(M, "elem")

\* emplace(pos, args...) when no reallocation is needed: the value is built
\* in a temporary, the run from pos on is shifted one slot toward the tail
\* and the temporary is assigned to *pos; m_end is left as it was
emplace_inplace(M, v, i, x) ==
  LET b == M.vec[v].m_begin
      e == M.vec[v].m_end
  IN set_ret(
       assign_at(
         may_throw_copy(
           move_if_noexcept_launder(
             uninitialized_move_if_noexcept_launder(Tick(M, "elem"), b, e - 1, e, b, e),
             b, i, e - 1, i + 1)),
         b, i, x),
       i)

\* return m_end - 1;
ret_last(M, v) == set_ret(M, M.vec[v].m_end - 1)

\* if (pos == m_end) { emplace_back(args...); return m_end - 1; }
emplace_at_end(M, v, x) == ret_last(emplace_back(M, v, x, FALSE), v)

\* emplace(pos, args...): the returned pointer is left in ret as an offset
\* from the (new) m_begin
emplace(M, v, i, x) ==
  IF i = M.vec[v].m_end
  THEN emplace_at_end(M, v, x)
  ELSE IF M.vec[v].m_end = M.vec[v].m_realend
  THEN emplace_realloc(M, v, i, x)
  ELSE emplace_inplace(M, v, i, x)

(***************************************************************************)
(* Size modifiers.  The handlers of reserve, shrink_to_fit and resize call *)
(* AllocTraitsT::deallocate(tmp): it is read as the release of tmp.        *)
(***************************************************************************)
RECURSIVE construct_fill(_, _, _, _, _)
construct_fill(M, p, from, to, x) ==
  IF ~Ok(M) \/ from >= to THEN M
  ELSE construct_fill(AllocTraits_construct(M, p, from, x), p, from + 1, to, x)

\* reserve_into with m_realend set to the end of the elements instead of
\* tmp + new_cap
reserve_into_tight(A, v, new_cap) ==
  catch_release(
    A,
    adopt_end(
      uninitialized_move_if_noexcept_launder(
        A, A.vec[v].m_begin, 0, A.vec[v].m_end, A.ret, 0),
      v, A.ret, size(A.vec[v])),
    A.vec[v].m_alloc, A.ret, new_cap)

\* try { end = relocate; deallocate(); m_begin = tmp; m_end = end;
\* m_realend = tmp + new_cap; } catch (...) { ... }, tmp allocated in state A
reserve_into(A, v, new_cap) ==
  catch_release(
    A,
    adopt_end(
      uninitialized_move_if_noexcept_launder(
        A, A.vec[v].m_begin, 0, A.vec[v].m_end, A.ret, 0),
      v, A.ret, new_cap),
    A.vec[v].m_alloc, A.ret, new_cap)

reserve(M, v, new_cap) ==
  IF new_cap > capacity(M.vec[v])
  THEN reserve_into(allocate_tmp(M, v, new_cap, M.vec[v].m_alloc), v, new_cap)
  ELSE M

shrink_into(A, v, oldsize) ==
  catch_release(
    A,
    adopt_end(
      uninitialized_move_launder(A, A.vec[v].m_begin, 0, A.vec[v].m_end, A.ret, 0),
      v, A.ret, oldsize),
    A.vec[v].m_alloc, A.ret, oldsize)

shrink_to_fit(M, v) ==
  IF size(M.vec[v]) < capacity(M.vec[v])
  THEN shrink_into(allocate_tmp(M, v, size(M.vec[v]), M.vec[v].m_alloc), v, size(M.vec[v]))
  ELSE M

RECURSIVE pop_while_larger(_, _, _)
pop_while_larger(M, v, count) ==
  IF ~Ok(M) \/ ~(size(M.vec[v]) > count) THEN M
  ELSE pop_while_larger(pop_back(M, v), v, count)

\* while (size() > count) emplace_back(args...);
RECURSIVE emplace_while_larger(_, _, _, _)
emplace_while_larger(M, v, count, x) ==
  IF ~Ok(M) \/ ~(size(M.vec[v]) > count) THEN M
  ELSE emplace_while_larger(emplace_back(M, v, x, FALSE), v, count, x)

\* for (; end < tmp + count; ++end) construct(m_alloc, end); deallocate();
\* m_begin = tmp; m_end = end; m_realend = tmp + count;  with end == M.ret
resize_tail(M, v, tmp, count) ==
  adopt(construct_fill(M, tmp, M.ret, count, Default),
        v, tmp, IF M.ret < count THEN count ELSE M.ret, count)

resize_into(A, v, count) ==
  catch_release(
    A,
    resize_tail(
      uninitialized_move_if_noexcept_launder(
        A, A.vec[v].m_begin, 0, A.vec[v].m_end, A.ret, 0),
      v, A.ret, count),
    A.vec[v].m_alloc, A.ret, count)

resize(M, v, count) ==
  IF count > capacity(M.vec[v])
  THEN resize_into(allocate_tmp(M, v, count, M.vec[v].m_alloc), v, count)
  ELSE IF count > size(M.vec[v])
  THEN emplace_while_larger(M, v, count, Default)
  ELSE pop_while_larger(M, v, count)

\* the new elements are constructed at tmp + size() .. tmp + count first;
\* m_end is then the pointer the relocation returned
resize_fill_into(A, v, count, value) ==
  catch_release(
    A,
    adopt_end(
      uninitialized_move_if_noexcept_launder(
        construct_fill(A, A.ret, size(A.vec[v]), count, value),
        A.vec[v].m_begin, 0, A.vec[v].m_end, A.ret, 0),
      v, A.ret, count),
    A.vec[v].m_alloc, A.ret, count)

resize_fill(M, v, count, value) ==
  IF count > capacity(M.vec[v])
  THEN resize_fill_into(allocate_tmp(M, v, count, M.vec[v].m_alloc), v, count, value)
  ELSE IF count > size(M.vec[v])
  THEN emplace_while_larger(M, v, count, value)
  ELSE pop_while_larger(M, v, count)

(***************************************************************************)
(* Assignment from another vector (this is v, other is o, v # o).          *)
(***************************************************************************)
\* called by the copy assignment and defined nowhere: nothing is known of
\* it but its name, and no step of the assignment is attributed to it
allocate_empty(M, v, n) == M

allocs_differ(M, v, o) == ~cfg.iae /\ M.vec[v].m_alloc # M.vec[o].m_alloc

\* m_alloc = other.m_alloc;
set_alloc(M, v, o) == IF Ok(M) THEN [M EXCEPT !.vec[v].m_alloc = M.vec[o].m_alloc] ELSE M

\* for (auto& elem : *this) { elem = *tmp (or std::move(*tmp)); ++tmp; }
RECURSIVE assign_prefix(_, _, _, _, _)
assign_prefix(M, v, o, k, move) ==
  IF ~Ok(M) \/ k >= M.vec[v].m_end THEN M
  ELSE LET x == Load(M, M.vec[o].m_begin, k)
           T == IF move /\ cfg.nothrow_move THEN M ELSE Tick(M, "elem")
       IN IF ~Ok(T) THEN T
          ELSE LET S1 == Store(T, M.vec[v].m_begin, k, x)
                   S2 == IF move THEN Put(S1, M.vec[o].m_begin, k, MovedFrom) ELSE S1
               IN assign_prefix(S2, v, o, k + 1, move)

\* whether push_back(std::move(*tmp)) got as far as constructing from *tmp
source_consumed(M, v) ==
  IF M.vec[v].m_end < M.vec[v].m_realend
  THEN Ok(Tick(M, "elem"))
  ELSE Ok(Tick(allocate_tmp(M, v, size(M.vec[v]) * 2, M.vec[v].m_alloc), "elem"))

\* what push_back(std::move(*tmp)) leaves at *tmp
mark_consumed(M, consumed, p, k) == IF consumed THEN Put(M, p, k, MovedFrom) ELSE M

\* while (tmp != other.m_end) { push_back(*tmp (or std::move(*tmp))); ++tmp; }
RECURSIVE push_rest(_, _, _, _, _)
push_rest(M, v, o, k, move) ==
  IF ~Ok(M) \/ k = M.vec[o].m_end \/ k \notin Idx THEN M
  ELSE push_rest(
         mark_consumed(
           push_back(M, v, Load(M, M.vec[o].m_begin, k), move),
           move /\ source_consumed(M, v), M.vec[o].m_begin, k),
         v, o, k + 1, move)

\* the loop above entered with tmp == other.m_begin + size()
push_tail(M, v, o, move) == push_rest(M, v, o, size(M.vec[v]), move)

\* destroy excess, assign onto existing elements, construct new elements
assign_elementwise(M, v, o, move) ==
  push_tail(
    assign_prefix(pop_while_larger(M, v, size(M.vec[o])), v, o, 0, move),
    v, o, move)

\* m_begin = other.m_begin; ...; other.m_begin = other.m_end = other.m_realend = nullptr
steal(M, v, o) ==
  IF ~Ok(M) THEN M
  ELSE [M EXCEPT !.vec[v].m_begin = M.vec[o].m_begin,
                 !.vec[v].m_end = M.vec[o].m_end,
                 !.vec[v].m_realend = M.vec[o].m_realend,
                 !.vec[o].m_begin = Null,
                 !.vec[o].m_end = 0,
                 !.vec[o].m_realend = 0]

\* if constexpr (propagate_on_container_copy_assignment::value) { ... }
copy_propagate(M, v, o) ==
  IF cfg.pocca
  THEN set_alloc(
         allocate_empty(IF allocs_differ(M, v, o) THEN deallocate(M, v) ELSE M,
                        v, size(M.vec[o])),
         v, o)
  ELSE M

\* try { uninitialized_copy(...); } catch (...) { ... } and the swap
copy_into(A, v, o, n) ==
  swap_in(
    catch_release(A, uninitialized_copy(A, A.vec[o].m_begin, 0, n, A.ret, 0),
                  A.vec[v].m_alloc, A.ret, n),
    v, A.ret, n, n)

\* operator=(const vector& other) from the test of the sizes on
copy_sized(M, v, o) ==
  IF size(M.vec[o]) > capacity(M.vec[v])
  THEN copy_into(allocate_tmp(M, v, size(M.vec[o]), M.vec[v].m_alloc), v, o, size(M.vec[o]))
  ELSE assign_elementwise(M, v, o, FALSE)

copy_assign(M, v, o) == copy_sized(copy_propagate(M, v, o), v, o)

\* try { uninitialized_move(...); deallocate(); ... } catch (...) { ... }
move_into(A, v, o, n) ==
  catch_release(
    A,
    adopt(uninitialized_move(A, A.vec[o].m_begin, 0, n, A.ret, 0), v, A.ret, n, n),
    A.vec[v].m_alloc, A.ret, n)

\* if (m_alloc != other.m_alloc) m_alloc = other.m_alloc;
move_propagate(M, v, o) == IF allocs_differ(M, v, o) THEN set_alloc(M, v, o) ELSE M

move_assign(M, v, o) ==
  IF cfg.pocma
  THEN steal(deallocate(move_propagate(M, v, o), v), v, o)
  ELSE IF allocs_differ(M, v, o)
  THEN IF size(M.vec[o]) > capacity(M.vec[v])
       THEN move_into(allocate_tmp(M, v, size(M.vec[o]), M.vec[v].m_alloc),
                      v, o, size(M.vec[o]))
       ELSE assign_elementwise(M, v, o, TRUE)
  ELSE steal(deallocate(M, v), v, o)

(***************************************************************************)
(* Constructors and destructor.  A constructor runs on storage that holds  *)
(* no vector: v is a name whose previous object, if any, has been          *)
(* destroyed, which the model keeps as three null pointers.  The           *)
(* allocator-extended constructors call allocate(count) with one argument; *)
(* it is read as allocate(count, m_alloc).                                 *)
(***************************************************************************)
\* m_begin = AllocTraitsT::allocate(alloc, capacity); m_realend = m_begin + capacity;
allocate_set(A, v, n) ==
  IF Ok(A) THEN [A EXCEPT !.vec[v].m_begin = A.ret, !.vec[v].m_realend = n] ELSE A

allocate_catch(M, A, n) ==
  IF Ok(M) /\ ~Ok(A) /\ n > max_size THEN Rethrow(A, "length_error") ELSE A

allocate(M, v, n) ==
  allocate_set(allocate_catch(M, AllocTraits_allocate(M, M.vec[v].m_alloc, n), n), v, n)

\* m_end = m_realend;
end_at_realend(M, v) == IF Ok(M) THEN [M EXCEPT !.vec[v].m_end = M.vec[v].m_realend] ELSE M

\* m_end = m_begin;
end_at_begin(M, v) == IF Ok(M) THEN [M EXCEPT !.vec[v].m_end = 0] ELSE M

\* for (auto& elem : make_range(m_begin, m_realend)) construct(m_alloc, &elem, value);
construct_all(A, v, x) ==
  end_at_realend(construct_fill(A, A.vec[v].m_begin, 0, A.vec[v].m_realend, x), v)

\* vector()
ctor_default(M, v) == set_pointers(M, v, Null, 0, 0)

\* vector(size_t count)
ctor_sized(M, v, count) == construct_all(allocate(M, v, count), v, Default)

\* vector(size_t count, const T& value)
ctor_fill(M, v, count, value) == construct_all(allocate(M, v, count), v, value)

\* for (const auto& elem : il) push_back(elem);
RECURSIVE push_list(_, _, _, _)
push_list(M, v, il, k) ==
  IF ~Ok(M) \/ k > Len(il) THEN M
  ELSE push_list(push_back(M, v, il[k], FALSE), v, il, k + 1)

\* vector(InitListT il)
ctor_list(M, v, il) == push_list(end_at_begin(allocate(M, v, Len(il)), v), v, il, 1)

\* m_alloc(select_on_container_copy_construction(other.m_alloc))
select_alloc(M, v, o) == [M EXCEPT !.vec[v].m_alloc = M.vec[o].m_alloc]

copy_all(A, v, o) ==
  end_at_realend(
    uninitialized_copy(A, A.vec[o].m_begin, 0, A.vec[o].m_end, A.vec[v].m_begin, 0), v)

\* vector(const vector& other)
ctor_copy(M, v, o) == copy_all(allocate(select_alloc(M, v, o), v, size(M.vec[o])), v, o)

\* vector(vector&& other)
ctor_move(M, v, o) == steal(select_alloc(M, v, o), v, o)

\* ~vector() { deallocate(); }  the object is gone afterwards
dtor(M, v) == set_pointers(deallocate(M, v), v, Null, 0, 0)

(***************************************************************************)
(* swap                                                                    *)
(***************************************************************************)
\* the allocators exchanged whatever the trait says
swap_alloc_always(M, v, o) ==
  [M EXCEPT !.vec[v].m_alloc = M.vec[o].m_alloc, !.vec[o].m_alloc = M.vec[v].m_alloc]

\* if constexpr (propagate_on_container_swap::value) swap(m_alloc, other.m_alloc);
swap_alloc(M, v, o) ==
  IF cfg.pocs
  THEN [M EXCEPT !.vec[v].m_alloc = M.vec[o].m_alloc, !.vec[o].m_alloc = M.vec[v].m_alloc]
  ELSE M

\* std::swap(m_begin, other.m_begin); std::swap(m_end, other.m_end);
\* std::swap(m_realend, other.m_realend);
swap_pointers(M, v, o) ==
  [M EXCEPT !.vec[v].m_begin = M.vec[o].m_begin, !.vec[o].m_begin = M.vec[v].m_begin,
            !.vec[v].m_end = M.vec[o].m_end, !.vec[o].m_end = M.vec[v].m_end,
            !.vec[v].m_realend = M.vec[o].m_realend, !.vec[o].m_realend = M.vec[v].m_realend]

swap(M, v, o) == swap_pointers(swap_alloc(M, v, o), v, o)

(***************************************************************************)
(* Element access                                                          *)
(***************************************************************************)
\* if (n >= size()) throw std::out_of_range(...)
check_range(M, v, n) == IF Ok(M) /\ n >= size(M.vec[v]) THEN Rethrow(M, "out_of_range") ELSE M

\* *this[i] is *(this[i]): this[i] is the vector object at this + i, never
\* an element of the vector, and it is not element i that is yielded
deref_this(M, v, i) == IF Ok(M) THEN [M EXCEPT !.ret = Garbage] ELSE M

at(M, v, i) == deref_this(check_range(M, v, i), v, i)

(***************************************************************************)
(* The state machine: two vectors of one element and allocator type, both  *)
(* default-constructed, and one action per public member function.  An     *)
(* action draws the call's arguments, the fallible step (if any) at which  *)
(* a fault is injected, and whether an out-of-bounds write lands.          *)
(*                                                                         *)
(* Addresses are compared within one call only, so when a call returns the *)
(* blocks the vectors point to are renamed to fixed addresses (two vectors *)
(* that share a block keep sharing it); `last' records the call, what the  *)
(* target's size and capacity were, and whether the call changed m_begin.  *)
(* `trail' is, per vector, the values pushed so far as long as nothing but *)
(* successful push_back calls have been made on it.                        *)
(***************************************************************************)
Fuels == 0..NoFault

EmptyVec(al) == [m_begin |-> Null, m_end |-> 0, m_realend |-> 0, m_alloc |-> al]

NoCall == [op |-> "init", v |-> "a", arg |-> 0, val |-> Default, outcome |-> "none",
           ret |-> 0, psize |-> 0, pcap |-> 0, moved |-> FALSE]

InitWith(C) ==
  /\ cfg \in C
  /\ heap = [b \in Blocks |-> NoBlock]
  /\ \E al \in (IF cfg.iae THEN {"A1"} ELSE Allocs) :
       vec = [v \in Vecs |-> IF v = "a" THEN EmptyVec("A1") ELSE EmptyVec(al)]
  /\ last = NoCall
  /\ trail = [v \in Vecs |-> [pure |-> TRUE, vals |-> <<>>]]
  /\ log = <<>>

Rename(R, p) ==
  IF p = Null THEN Null
  ELSE IF p = R.vec["a"].m_begin THEN 1
  ELSE 2

\* the call on v returns or throws; detail says whether `last' keeps its particulars
Return(R, op, v, arg, val, detail) ==
  /\ heap' = [b \in Blocks |->
                IF \E u \in Vecs : Rename(R, R.vec[u].m_begin) = b
                THEN R.heap[R.vec[CHOOSE u \in Vecs : Rename(R, R.vec[u].m_begin) = b].m_begin]
                ELSE NoBlock]
  /\ vec' = [u \in Vecs |-> [R.vec[u] EXCEPT !.m_begin = Rename(R, @)]]
  /\ last' = IF detail
             THEN [op |-> op, v |-> v, arg |-> arg, val |-> val,
                   outcome |-> R.exc,
                   ret |-> IF op = "emplace" /\ Ok(R) THEN R.ret ELSE 0,
                   psize |-> size(vec[v]), pcap |-> capacity(vec[v]),
                   moved |-> R.vec[v].m_begin # vec[v].m_begin]
             ELSE [NoCall EXCEPT !.op = "call", !.v = v]
  /\ trail' = [u \in Vecs |->
                 IF u # v /\ op \notin {"copy_assign", "move_assign", "swap", "ctor_move"} THEN trail[u]
                 ELSE IF op = "push_back" /\ Ok(R) /\ trail[u].pure
                 THEN [pure |-> TRUE, vals |-> Append(trail[u].vals, val)]
                 ELSE [pure |-> FALSE, vals |-> <<>>]]
  /\ log' = IF cfg.trace /\ detail THEN R.log ELSE <<>>
  /\ UNCHANGED cfg

\* push_back(const T&)
PushBack(V, F, detail) ==
  \E v \in V, x \in Values, fuel \in F, lands \in BOOLEAN :
    Return(push_back(Machine(fuel, lands), v, x, FALSE), "push_back", v, 0, x, detail)

Emplace(V, F, detail) ==
  \E v \in V, x \in Values, fuel \in F, lands \in BOOLEAN :
    \E i \in 0..size(vec[v]) :
      Return(emplace(Machine(fuel, lands), v, i, x), "emplace", v, i, x, detail)

PopBack(V, detail) ==
  \E v \in V :
    /\ ~empty(vec[v])
    /\ Return(pop_back(Machine(NoFault, TRUE), v), "pop_back", v, 0, Default, detail)

Clear(V, detail) ==
  \E v \in V :
    Return(clear(Machine(NoFault, TRUE), v), "clear", v, 0, Default, detail)

Reserve(V, F, detail) ==
  \E v \in V, n \in 0..(MaxSize + 1), fuel \in F, lands \in BOOLEAN :
    Return(reserve(Machine(fuel, lands), v, n), "reserve", v, n, Default, detail)

ShrinkToFit(V, F, detail) ==
  \E v \in V, fuel \in F, lands \in BOOLEAN :
    Return(shrink_to_fit(Machine(fuel, lands), v), "shrink_to_fit", v, 0, Default, detail)

Resize(V, F, detail) ==
  \E v \in V, n \in 0..(MaxSize + 1), fuel \in F, lands \in BOOLEAN :
    Return(resize(Machine(fuel, lands), v, n), "resize", v, n, Default, detail)

ResizeFill(V, F, detail) ==
  \E v \in V, n \in 0..(MaxSize + 1), x \in Values, fuel \in F, lands \in BOOLEAN :
    Return(resize_fill(Machine(fuel, lands), v, n, x), "resize_fill", v, n, x, detail)

CopyAssign(F) ==
  \E v \in Vecs, o \in Vecs, fuel \in F, lands \in BOOLEAN :
    /\ v # o
    /\ Return(copy_assign(Machine(fuel, lands), v, o), "copy_assign", v, 0, Default, TRUE)

MoveAssign(F) ==
  \E v \in Vecs, o \in Vecs, fuel \in F, lands \in BOOLEAN :
    /\ v # o
    /\ Return(move_assign(Machine(fuel, lands), v, o), "move_assign", v, 0, Default, TRUE)

\* the lists an initializer-list constructor is called with
Lists == UNION { [1..n -> Values] : n \in 0..(AssignMax - 1) }

NoObject(v) == vec[v].m_begin = Null /\ vec[v].m_end = 0 /\ vec[v].m_realend = 0

CtorDefault ==
  \E v \in Vecs :
    /\ NoObject(v)
    /\ Return(ctor_default(Machine(NoFault, TRUE), v), "ctor_default", v, 0, Default, TRUE)

CtorSized ==
  \E v \in Vecs, n \in 0..AssignMax :
    /\ NoObject(v)
    /\ Return(ctor_sized(Machine(NoFault, TRUE), v, n), "ctor_sized", v, n, Default, TRUE)

CtorFill ==
  \E v \in Vecs, n \in 0..AssignMax, x \in Values :
    /\ NoObject(v)
    /\ Return(ctor_fill(Machine(NoFault, TRUE), v, n, x), "ctor_fill", v, n, x, TRUE)

CtorList ==
  \E v \in Vecs, il \in Lists, lands \in BOOLEAN :
    /\ NoObject(v)
    /\ Return(ctor_list(Machine(NoFault, lands), v, il), "ctor_list", v, Len(il), il, TRUE)

CtorCopy ==
  \E v \in Vecs, o \in Vecs :
    /\ v # o
    /\ NoObject(v)
    /\ Return(ctor_copy(Machine(NoFault, TRUE), v, o), "ctor_copy", v, 0, Default, TRUE)

CtorMove ==
  \E v \in Vecs, o \in Vecs :
    /\ v # o
    /\ NoObject(v)
    /\ Return(ctor_move(Machine(NoFault, TRUE), v, o), "ctor_move", v, 0, Default, TRUE)

Dtor(V, detail) ==
  \E v \in V :
    Return(dtor(Machine(NoFault, TRUE), v), "dtor", v, 0, Default, detail)

Swap ==
  \E v \in Vecs, o \in Vecs :
    /\ v # o
    /\ Return(swap(Machine(NoFault, TRUE), v, o), "swap", v, 0, Default, TRUE)

\* at(i); what it yields is recorded in last.val
CallAt(V) ==
  \E v \in V, i \in 0..(AssignMax + 1) :
    Return(at(Machine(NoFault, TRUE), v, i), "at", v, i,
           IF Ok(at(Machine(NoFault, TRUE), v, i)) THEN at(Machine(NoFault, TRUE), v, i).ret
           ELSE Default, TRUE)

(***************************************************************************)
(* The specifications.  In each, vector "a" (and in SpecAssign "b" too)    *)
(* is brought into its state by push_back, pop_back and reserve calls that *)
(* `last' does not detail, and the member functions under study are called *)
(* with faults injected and recorded in `last'.                            *)
(***************************************************************************)
One == {"a"}

\* SpecPush: nothing but push_back, under an allocator that serves up to
\* PushMax elements
InitPush == InitWith({c \in Configs(PushMax) : c.iae})

NextPush == PushBack(One, Fuels, TRUE)

SpecPush == InitPush /\ [][NextPush]_vars

\* SpecBack: push_back on a vector of any size and capacity
Init == InitWith({c \in Configs(MaxSize) : c.iae})

NextBack ==
  \/ PushBack(One, Fuels, TRUE)
  \/ PopBack(One, FALSE)
  \/ Reserve(One, {NoFault}, FALSE)

SpecBack == Init /\ [][NextBack]_vars

\* SpecResize: both overloads of resize
NextResize ==
  \/ PushBack(One, {NoFault}, FALSE)
  \/ PopBack(One, FALSE)
  \/ Reserve(One, {NoFault}, FALSE)
  \/ Resize(One, Fuels, TRUE)
  \/ ResizeFill(One, Fuels, TRUE)

SpecResize == Init /\ [][NextResize]_vars

\* SpecReserve: reserve, and shrink_to_fit and clear to vary the capacity
NextReserve ==
  \/ PushBack(One, {NoFault}, FALSE)
  \/ PopBack(One, FALSE)
  \/ Clear(One, FALSE)
  \/ ShrinkToFit(One, {NoFault}, FALSE)
  \/ Reserve(One, Fuels, TRUE)

SpecReserve == Init /\ [][NextReserve]_vars

\* SpecEmplace: positional emplace
NextEmplace ==
  \/ PushBack(One, {NoFault}, FALSE)
  \/ PopBack(One, FALSE)
  \/ Reserve(One, {NoFault}, FALSE)
  \/ Emplace(One, Fuels, TRUE)

SpecEmplace == Init /\ [][NextEmplace]_vars

\* SpecAssign: two vectors and the assignments between them
InitAssign == InitWith({c \in Configs(AssignMax) : c.nothrow_move})

NextAssign ==
  \/ PushBack(Vecs, {NoFault}, FALSE)
  \/ PopBack(One, FALSE)
  \/ Reserve(One, {NoFault}, FALSE)
  \/ CopyAssign(Fuels)
  \/ MoveAssign(Fuels)

SpecAssign == InitAssign /\ [][NextAssign]_vars

\* SpecAt: at() on vectors of every size, the moved-from ones included
NextAt ==
  \/ PushBack(Vecs, {NoFault}, FALSE)
  \/ PopBack(One, FALSE)
  \/ Reserve(One, {NoFault}, FALSE)
  \/ MoveAssign({NoFault})
  \/ CallAt(Vecs)

SpecAt == InitAssign /\ [][NextAt]_vars

\* SpecSwap: swap between two vectors under every combination of traits,
\* with equal and with unequal allocators
InitSwap == InitWith(Traced({c \in Configs(AssignMax) : c.nothrow_move}))

NextSwap ==
  \/ PushBack(Vecs, {NoFault}, FALSE)
  \/ PopBack(One, FALSE)
  \/ Reserve(One, {NoFault}, FALSE)
  \/ Swap

SpecSwap == InitSwap /\ [][NextSwap]_vars

\* SpecCtor: every constructor, on storage whose previous vector has been
\* destroyed
NextCtor ==
  \/ CtorDefault
  \/ CtorSized
  \/ CtorFill
  \/ CtorList
  \/ CtorCopy
  \/ CtorMove
  \/ PopBack(Vecs, FALSE)
  \/ Dtor(Vecs, FALSE)

SpecCtor == InitAssign /\ [][NextCtor]_vars

\* SpecPlain: calls that all succeed (no fault is injected, pop_back is
\* called on non-empty vectors only)
NextPlain ==
  \/ PushBack(One, {NoFault}, TRUE)
  \/ PopBack(One, TRUE)
  \/ Clear(One, TRUE)
  \/ Reserve(One, {NoFault}, TRUE)
  \/ ShrinkToFit(One, {NoFault}, TRUE)
  \/ Resize(One, {NoFault}, TRUE)

SpecPlain == Init /\ [][NextPlain]_vars

\* one vector under an allocator whose calls are recorded
InitTraced == InitWith(Traced({c \in Configs(MaxSize) : c.iae}))

\* SpecRealloc: the operations that replace the block, with faults injected
\* and the calls on the allocator recorded; resize(n) beyond the capacity
\* builds the full vectors they start from
NextRealloc ==
  \/ Resize(One, {NoFault}, FALSE)
  \/ PopBack(One, FALSE)
  \/ PushBack(One, Fuels, TRUE)
  \/ Reserve(One, Fuels, TRUE)
  \/ ShrinkToFit(One, Fuels, TRUE)

SpecRealloc == InitTraced /\ [][NextRealloc]_vars

\* SpecStrong: the capacity-changing operations with faults injected, on
\* vectors built by resize(n) and pop_back
NextStrong ==
  \/ PopBack(One, FALSE)
  \/ Reserve(One, Fuels, TRUE)
  \/ Resize(One, Fuels, TRUE)
  \/ ResizeFill(One, Fuels, TRUE)
  \/ ShrinkToFit(One, Fuels, TRUE)

SpecStrong == Init /\ [][NextStrong]_vars

\* SpecRelease: the destructor and the release of the old block by reserve
\* and shrink_to_fit, with the calls on the allocator recorded; a vector is
\* default-constructed again after its destruction
NextRelease ==
  \/ Resize(One, {NoFault}, FALSE)
  \/ PopBack(One, FALSE)
  \/ Dtor(One, TRUE)
  \/ Reserve(One, {NoFault}, TRUE)
  \/ ShrinkToFit(One, {NoFault}, TRUE)

SpecRelease == InitTraced /\ [][NextRelease]_vars

\* SpecPropagate: the assignments between two vectors whose allocators may
\* differ, under every combination of traits, with the calls on the
\* allocator recorded; resize(n) and pop_back build the vectors
NextPropagate ==
  \/ Resize(Vecs, {NoFault}, FALSE)
  \/ PopBack(Vecs, FALSE)
  \/ CopyAssign(Fuels)
  \/ MoveAssign(Fuels)

SpecPropagate == InitSwap /\ [][NextPropagate]_vars

\* SpecLimit: requests up to one element beyond max_size(), with the calls
\* on the allocator recorded
NextLimit ==
  \/ PushBack(One, {NoFault}, FALSE)
  \/ Reserve(One, Fuels, TRUE)
  \/ Resize(One, Fuels, TRUE)

SpecLimit == InitTraced /\ [][NextLimit]_vars

TypeOK ==
  /\ \A v \in Vecs :
       /\ vec[v].m_begin \in {Null} \cup Blocks
       /\ vec[v].m_end \in Idx
       /\ vec[v].m_realend \in Idx
       /\ vec[v].m_alloc \in Allocs
  /\ \A b \in Blocks :
       /\ heap[b].st \in {"unused", "live", "freed"}
       /\ heap[b].n \in Idx
       /\ \A i \in Idx : heap[b].slots[i] \in Slot

(***************************************************************************)
(* What a caller observes of a vector                                      *)
(***************************************************************************)
Size(v) == size(vec[v])
Cap(v) == capacity(vec[v])
At(v, k) == IF vec[v].m_begin # Null /\ k \in Idx THEN heap[vec[v].m_begin].slots[k] ELSE Garbage
Elems(v) == [k \in 1..Size(v) |-> At(v, k - 1)]
Other(v) == IF v = "a" THEN "b" ELSE "a"
Max(m, n) == IF m > n THEN m ELSE n
Min(m, n) == IF m < n THEN m ELSE n

Called(op) == last.op = op /\ last.outcome = "none"
Failed(op) == last.op = op /\ last.outcome # "none"

(***************************************************************************)
(* C1: after N successive push_back calls on a default-constructed         *)
(* vector, none of which failed, size() == N and the elements are the N    *)
(* pushed values in push order.                                            *)
(***************************************************************************)
C1_PushN ==
  \A v \in Vecs :
    trail[v].pure => Size(v) = Len(trail[v].vals) /\ Elems(v) = trail[v].vals

\* the size half of C1 alone
C1_SizeOnly == \A v \in Vecs : trail[v].pure => Size(v) = Len(trail[v].vals)

\* the step is a call of op on vector "a" that returned (Returns) or threw (Throws)
Returns(op) == last'.op = op /\ last'.outcome = "none" /\ last'.v = "a"
Throws(op) == last'.op = op /\ last'.outcome # "none" /\ last'.v = "a"

(***************************************************************************)
(* C2: when size() < capacity(), a successful push_back constructs the new *)
(* element in the first spare slot, increases size() by exactly 1 and      *)
(* leaves capacity(), the buffer start address and every previously live   *)
(* element unchanged (no allocation, relocation or deallocation).          *)
(***************************************************************************)
C2_SpareAppend ==
  [][ (Returns("push_back") /\ Size("a") < Cap("a"))
      => /\ Size("a")' = Size("a") + 1
         /\ Cap("a")' = Cap("a")
         /\ ~last'.moved
         /\ Elems("a")' = Append(Elems("a"), last'.val) ]_vars

(***************************************************************************)
(* C3: when size() == capacity() (capacity 0 included), a successful       *)
(* push_back leaves capacity() == max(1, 2 * old capacity), size() == old  *)
(* size + 1, the old elements in order followed by the new element; hence  *)
(* capacity never decreases across push_back calls.                        *)
(***************************************************************************)
C3_FullAppend ==
  [][ /\ (Returns("push_back") /\ Size("a") = Cap("a"))
         => /\ Cap("a")' = Max(1, 2 * Cap("a"))
            /\ Size("a")' = Size("a") + 1
            /\ Elems("a")' = Append(Elems("a"), last'.val)
      /\ Returns("push_back") => Cap("a")' >= Cap("a") ]_vars

(***************************************************************************)
(* C4: push_back is strongly exception-safe with spare capacity and at     *)
(* full capacity: if the call fails, size(), capacity() and every element  *)
(* value are what they were before the call.                               *)
(***************************************************************************)
C4_StrongAppend ==
  [][ Throws("push_back")
      => /\ Size("a")' = Size("a")
         /\ Cap("a")' = Cap("a")
         /\ Elems("a")' = Elems("a") ]_vars

(***************************************************************************)
(* C5: after copy assignment copy_of = original, whatever the sizes,       *)
(* capacities and propagation traits, copy_of == original, original is     *)
(* unchanged, and the two own distinct blocks, so that a later mutation of *)
(* one changes neither the size nor an element of the other.               *)
(***************************************************************************)
C5_CopyAssign ==
  [][ \A v \in Vecs :
        /\ (last'.op = "copy_assign" /\ last'.outcome = "none" /\ last'.v = v)
           => /\ Elems(v)' = Elems(Other(v))'
              /\ Elems(Other(v))' = Elems(Other(v))
              /\ vec'[v].m_begin = Null \/ vec'[v].m_begin # vec'[Other(v)].m_begin
        /\ (last'.op = "call" /\ last'.v = v)
           => Elems(Other(v))' = Elems(Other(v)) ]_vars

(***************************************************************************)
(* C6: after move assignment moved_to = move(moved_from) of two distinct   *)
(* vectors, under every allocator configuration, moved_from has size 0 and *)
(* capacity 0 and moved_to holds exactly the elements moved_from held, in  *)
(* the same order.                                                         *)
(***************************************************************************)
C6_MoveAssign ==
  [][ \A v \in Vecs :
        (last'.op = "move_assign" /\ last'.outcome = "none" /\ last'.v = v)
        => /\ Size(Other(v))' = 0
           /\ Cap(Other(v))' = 0
           /\ Elems(v)' = Elems(Other(v)) ]_vars

\* the two halves of C6 one at a time
C6_SourceEmptied ==
  [][ \A v \in Vecs :
        (last'.op = "move_assign" /\ last'.outcome = "none" /\ last'.v = v)
        => Size(Other(v))' = 0 /\ Cap(Other(v))' = 0 ]_vars

C6_TargetHolds ==
  [][ \A v \in Vecs :
        (last'.op = "move_assign" /\ last'.outcome = "none" /\ last'.v = v)
        => Elems(v)' = Elems(Other(v)) ]_vars

(***************************************************************************)
(* C7: after resize(n) or resize(n, v) returns, whatever n and the prior   *)
(* state, size() == n, the first min(old size, n) elements are the old     *)
(* ones, the n - old size new trailing elements are value-initialised      *)
(* (resize(n)) or copies of v (resize(n, v)), and when n < old size the    *)
(* old size - n trailing elements were destroyed.                          *)
(***************************************************************************)
C7_Resize ==
  [][ \A op \in {"resize", "resize_fill"} :
        Returns(op)
        => /\ Size("a")' = last'.arg
           /\ \A k \in 1..Min(Size("a"), last'.arg) : Elems("a")'[k] = Elems("a")[k]
           /\ \A k \in (Size("a") + 1)..last'.arg :
                Elems("a")'[k] = (IF op = "resize" THEN Default ELSE last'.val)
           /\ last'.arg < Size("a")
              => /\ ~last'.moved
                 /\ \A k \in last'.arg..(Size("a") - 1) : At("a", k)' = Raw ]_vars

(***************************************************************************)
(* C8: reserve(n) with n <= capacity() changes nothing (size, capacity,    *)
(* buffer address, elements; nothing is allocated); reserve(n) with        *)
(* n > capacity() that succeeds leaves capacity() == n exactly and size()  *)
(* and every element value and their order unchanged.                      *)
(***************************************************************************)
C8_Reserve ==
  [][ /\ (last'.op = "reserve" /\ last'.v = "a" /\ last'.arg <= Cap("a"))
         => /\ last'.outcome = "none"
            /\ ~last'.moved
            /\ heap' = heap
            /\ vec' = vec
      /\ (Returns("reserve") /\ last'.arg > Cap("a"))
         => /\ Cap("a")' = last'.arg
            /\ Size("a")' = Size("a")
            /\ Elems("a")' = Elems("a") ]_vars

\* a reserve that had to grow the block of a vector of two or more elements
C8_Witness ==
  /\ Called("reserve")
  /\ last.arg > last.pcap
  /\ last.psize >= 2
  /\ Cap("a") = last.arg
  /\ last.moved

Insert(s, i, x) == SubSeq(s, 1, i) \o <<x>> \o SubSeq(s, i + 1, Len(s))

(***************************************************************************)
(* C9: emplace(pos, v) at index i < size() with spare capacity and no      *)
(* element operation throwing: size() == old size + 1, capacity() is       *)
(* unchanged, element i equals v, elements [0, i) are unchanged, elements  *)
(* (i, old size] are the old elements [i, old size) in order, and the      *)
(* returned position is index i.                                           *)
(***************************************************************************)
C9_EmplaceInPlace ==
  [][ (Returns("emplace") /\ last'.arg < Size("a") /\ Size("a") < Cap("a"))
      => /\ Size("a")' = Size("a") + 1
         /\ Cap("a")' = Cap("a")
         /\ Elems("a")' = Insert(Elems("a"), last'.arg, last'.val)
         /\ last'.ret = last'.arg ]_vars

(***************************************************************************)
(* C10: emplace(pos, v) at index i < size() when size() == capacity(): on  *)
(* success the new block holds old [0, i), then v at index i, then old     *)
(* [i, old size), size() == old size + 1 and the returned position is      *)
(* index i; if the allocation or a construction fails, size(), capacity()  *)
(* and all element values are what they were before the call.              *)
(***************************************************************************)
C10_EmplaceRealloc ==
  [][ /\ (Returns("emplace") /\ last'.arg < Size("a") /\ Size("a") = Cap("a"))
         => /\ Size("a")' = Size("a") + 1
            /\ Elems("a")' = Insert(Elems("a"), last'.arg, last'.val)
            /\ last'.ret = last'.arg
      /\ (Throws("emplace") /\ last'.arg < Size("a") /\ Size("a") = Cap("a"))
         => /\ Size("a")' = Size("a")
            /\ Cap("a")' = Cap("a")
            /\ Elems("a")' = Elems("a") ]_vars

\* an emplace in the middle of a full vector that reallocated
C10_Witness ==
  /\ Called("emplace")
  /\ last.psize = last.pcap
  /\ last.arg >= 1
  /\ last.arg < last.psize
  /\ last.moved
  /\ Size("a") = last.psize + 1

\* the calls of member e the last operation made on the allocator
Events(e) == {k \in 1..Len(log) : log[k].e = e}

(***************************************************************************)
(* C11: an operation whose requested capacity exceeds max_size() fails     *)
(* with length_error, and the allocator's allocate is never called with a  *)
(* count greater than max_size().                                          *)
(***************************************************************************)
C11_LengthChecked ==
  [][ /\ \A op \in {"reserve", "resize"} :
           (last'.op = op /\ last'.arg > max_size) => last'.outcome = "length_error"
      /\ \A k \in 1..Len(log') : log'[k].e = "allocate" => log'[k].i <= max_size ]_vars

\* the error half of C11 alone: the over-large request ends in length_error
C11_LengthError ==
  [][ \A op \in {"reserve", "resize"} :
        (last'.op = op /\ last'.arg > max_size) => last'.outcome = "length_error" ]_vars

(***************************************************************************)
(* C12: at(i) throws out_of_range for every i >= size(), in every state    *)
(* (empty and moved-from included), and leaves the vector unchanged; for   *)
(* i < size() it throws nothing and yields element i.                      *)
(***************************************************************************)
C12_At ==
  [][ \A v \in Vecs :
        (last'.op = "at" /\ last'.v = v)
        => /\ heap' = heap
           /\ vec' = vec
           /\ IF last'.arg >= Size(v)
              THEN last'.outcome = "out_of_range"
              ELSE last'.outcome = "none" /\ last'.val = At(v, last'.arg) ]_vars

\* the error half of C12 alone
C12_OutOfRange ==
  [][ \A v \in Vecs :
        (last'.op = "at" /\ last'.v = v)
        => /\ heap' = heap
           /\ vec' = vec
           /\ last'.outcome = (IF last'.arg >= Size(v) THEN "out_of_range" ELSE "none") ]_vars

(***************************************************************************)
(* C13: swap exchanges the pointer triples of the two vectors, so each     *)
(* ends with the other's size, capacity and elements; no element is        *)
(* constructed, destroyed or assigned and nothing is allocated or          *)
(* deallocated; the allocators are exchanged if and only if                *)
(* propagate_on_container_swap is set.                                     *)
(***************************************************************************)
C13_Swap ==
  [][ last'.op = "swap"
      => /\ last'.outcome = "none"
         /\ \A v \in Vecs :
              /\ Size(v)' = Size(Other(v))
              /\ Cap(v)' = Cap(Other(v))
              /\ Elems(v)' = Elems(Other(v))
              /\ (vec[v].m_begin = Null) = (vec'[Other(v)].m_begin = Null)
              /\ \A k \in Idx : At(v, k)' = At(Other(v), k)
              /\ vec'[v].m_alloc = (IF cfg.pocs THEN vec[Other(v)].m_alloc ELSE vec[v].m_alloc)
         /\ log' = <<>>
         /\ \A st \in {"live", "freed"} :
              Cardinality({b \in Blocks : heap'[b].st = st})
                = Cardinality({b \in Blocks : heap[b].st = st}) ]_vars

\* a swap of a vector of two elements with a vector of one element whose
\* allocator is another one and stays with it
C13_Witness ==
  /\ last.op = "swap"
  /\ ~cfg.pocs
  /\ vec["a"].m_alloc # vec["b"].m_alloc
  /\ {Size("a"), Size("b")} = {1, 2}
  /\ Elems("a") # <<>>
  /\ cfg.trace

\* a swap that exchanged two unequal allocators
C13_Exchanged ==
  /\ last.op = "swap"
  /\ cfg.pocs
  /\ vec["a"].m_alloc # vec["b"].m_alloc
  /\ Size("a") # Size("b")

\* the step constructed vector v with constructor op
Built(op, v) == last'.op = op /\ last'.v = v /\ last'.outcome = "none"

\* size() == capacity() == n and the elements are those of s
Holds(v, n, s) == Size(v)' = n /\ Cap(v)' = n /\ Elems(v)' = s

(***************************************************************************)
(* C14: after construction, a default-constructed vector has three null    *)
(* pointers; a vector built by the sized, fill, initializer-list or copy   *)
(* constructor from n elements has size() == capacity() == n and holds n   *)
(* default values, n copies of the fill value, the list's values or the    *)
(* source's values in order; a move-constructed vector has the source's    *)
(* size and elements and the source is left with size 0 and capacity 0.    *)
(***************************************************************************)
C14_Constructors ==
  [][ \A v \in Vecs :
        /\ Built("ctor_default", v)
           => vec'[v].m_begin = Null /\ Size(v)' = 0 /\ Cap(v)' = 0
        /\ Built("ctor_sized", v)
           => Holds(v, last'.arg, [k \in 1..last'.arg |-> Default])
        /\ Built("ctor_fill", v)
           => Holds(v, last'.arg, [k \in 1..last'.arg |-> last'.val])
        /\ Built("ctor_list", v)
           => Holds(v, Len(last'.val), last'.val)
        /\ Built("ctor_copy", v)
           => Holds(v, Size(Other(v)), Elems(Other(v))) /\ Elems(Other(v))' = Elems(Other(v))
        /\ Built("ctor_move", v)
           => /\ Size(v)' = Size(Other(v))
              /\ Elems(v)' = Elems(Other(v))
              /\ Size(Other(v))' = 0
              /\ Cap(Other(v))' = 0 ]_vars

\* C14 without the initializer-list constructor
C14_OtherConstructors ==
  [][ \A v \in Vecs :
        /\ Built("ctor_default", v)
           => vec'[v].m_begin = Null /\ Size(v)' = 0 /\ Cap(v)' = 0
        /\ Built("ctor_sized", v)
           => Holds(v, last'.arg, [k \in 1..last'.arg |-> Default])
        /\ Built("ctor_fill", v)
           => Holds(v, last'.arg, [k \in 1..last'.arg |-> last'.val])
        /\ Built("ctor_copy", v)
           => Holds(v, Size(Other(v)), Elems(Other(v))) /\ Elems(Other(v))' = Elems(Other(v))
        /\ Built("ctor_move", v)
           => /\ Size(v)' = Size(Other(v))
              /\ Elems(v)' = Elems(Other(v))
              /\ Size(Other(v))' = 0
              /\ Cap(Other(v))' = 0 ]_vars

(***************************************************************************)
(* C15: in every state reached by successful calls, 0 <= size() <=         *)
(* capacity(), every slot of [m_begin, m_end) holds a live element and no  *)
(* slot of [m_end, m_realend) holds a constructed element.                 *)
(***************************************************************************)
C15_Layout ==
  /\ Size("a") >= 0
  /\ Size("a") <= Cap("a")
  /\ \A k \in Idx : k < Size("a") => At("a", k) \notin {Raw, Garbage}
  /\ \A k \in Idx : (k >= Size("a") /\ k < Cap("a")) => At("a", k) = Raw

(***************************************************************************)
(* C16: in every reachable state m_begin is null if and only if            *)
(* capacity() == 0.                                                        *)
(***************************************************************************)
C16_NullIffNoCapacity == (vec["a"].m_begin = Null) <=> (Cap("a") = 0)

\* one half of C16: a null m_begin goes with capacity 0
C16_NullHasNoCapacity == (vec["a"].m_begin = Null) => (Cap("a") = 0)

\* the case of C16 that needs no call of push_back: shrink_to_fit on a
\* vector of size 0 and capacity > 0 leaves m_begin null
C16_AfterShrink ==
  [][ (Returns("shrink_to_fit") /\ Size("a") = 0 /\ Cap("a") > 0)
      => vec'["a"].m_begin = Null /\ Cap("a")' = 0 ]_vars

\* the calls of member e on slot or count i of block b in the sequence l
Calls(l, e, b, i) == {j \in 1..Len(l) : l[j].e = e /\ l[j].b = b /\ l[j].i = i}

\* the step is a successful call of op on "a" that replaced its block, made
\* in a state where [m_begin, m_end) lies within the block
Reallocated(op) ==
  /\ Returns(op)
  /\ last'.moved
  /\ vec["a"].m_begin # Null
  /\ Size("a") <= Cap("a")

\* every element of the old block destroyed once and the block deallocated
\* once, with no element left in it
OldReleased ==
  /\ \A k \in Idx :
       k < Size("a") => Cardinality(Calls(log', "destroy", vec["a"].m_begin, k)) = 1
  /\ Cardinality(Calls(log', "deallocate", vec["a"].m_begin, Cap("a"))) = 1
  /\ \A j \in Calls(log', "deallocate", vec["a"].m_begin, Cap("a")) : log'[j].k = 0

(***************************************************************************)
(* C17: when a reallocating operation succeeds, every element that lived   *)
(* in the old block is destroyed exactly once and the old block is         *)
(* deallocated exactly once before the new pointers are adopted; the       *)
(* elements constructed and not destroyed are those of [0, size()).        *)
(***************************************************************************)
C17_OldReleased ==
  [][ \A op \in {"push_back", "reserve", "shrink_to_fit"} :
        Reallocated(op) => OldReleased ]_vars

\* C17 for the operations that release the old block through deallocate()
C17_ViaDeallocate ==
  [][ \A op \in {"reserve", "shrink_to_fit"} : Reallocated(op) => OldReleased ]_vars

\* every block the call allocated was deallocated once, with the size it
\* was allocated with and with no element left constructed in it
NewReleased ==
  \A j \in Events("allocate")' :
    log'[j].b # Null
    => /\ Cardinality(Calls(log', "deallocate", log'[j].b, log'[j].i)) = 1
       /\ \A d \in Events("deallocate")' :
            log'[d].b = log'[j].b => (log'[d].i = log'[j].i /\ log'[d].k = 0)

(***************************************************************************)
(* C18: if a construction throws while a reallocation builds the new       *)
(* block, then before the exception reaches the caller every element       *)
(* constructed in the new block has been destroyed and the new block has   *)
(* been deallocated exactly once with its allocated size.                  *)
(***************************************************************************)
C18_NoLeak ==
  [][ \A op \in {"push_back", "reserve", "shrink_to_fit"} :
        Throws(op) => NewReleased ]_vars

\* C18 for reserve and shrink_to_fit, which construct nothing in the new
\* block but the relocated elements
C18_RelocationOnly ==
  [][ \A op \in {"reserve", "shrink_to_fit"} : Throws(op) => NewReleased ]_vars

\* the call left size(), capacity(), the address of the block and every
\* element as they were
Untouched ==
  /\ Size("a")' = Size("a")
  /\ Cap("a")' = Cap("a")
  /\ ~last'.moved
  /\ Elems("a")' = Elems("a")

(***************************************************************************)
(* C19: if the allocation or an element construction fails during         *)
(* reserve, resize (either overload) or shrink_to_fit, then size(),        *)
(* capacity(), the buffer address and every element value are what they    *)
(* were before the call.                                                   *)
(***************************************************************************)
C19_StrongGuarantee ==
  [][ \A op \in {"reserve", "resize", "resize_fill", "shrink_to_fit"} :
        Throws(op) => Untouched ]_vars

\* C19 for each operation alone
C19_Reserve == [][ Throws("reserve") => Untouched ]_vars

C19_ResizeFill == [][ Throws("resize_fill") => Untouched ]_vars

C19_ResizeDefault == [][ Throws("resize") => Untouched ]_vars

C19_ShrinkToFit == [][ Throws("shrink_to_fit") => Untouched ]_vars

\* the step released the block "a" had: its destructor ran, or a successful
\* reserve or shrink_to_fit replaced the block
Released ==
  /\ vec["a"].m_begin # Null
  /\ Size("a") <= Cap("a")
  /\ \/ Returns("dtor")
     \/ \E op \in {"reserve", "shrink_to_fit"} : Returns(op) /\ last'.moved

\* the destroy calls on the old block come in increasing order of index
ForwardOrder ==
  \A i \in Events("destroy")', j \in Events("destroy")' :
    (i < j /\ log'[i].b = vec["a"].m_begin /\ log'[j].b = vec["a"].m_begin)
    => log'[i].i < log'[j].i

\* the deallocation of the old block comes after every destroy call on it
DestroyedFirst ==
  \A i \in Events("destroy")', j \in Events("deallocate")' :
    (log'[i].b = vec["a"].m_begin /\ log'[j].b = vec["a"].m_begin) => i < j

(***************************************************************************)
(* C20: whenever the vector releases its storage (destructor, release      *)
(* step of a reallocation), the live elements are destroyed in forward     *)
(* order, index 0 first and index size() - 1 last, each exactly once, and  *)
(* the block is deallocated only after the last element is destroyed.      *)
(***************************************************************************)
C20_ForwardRelease ==
  [][ Released => (OldReleased /\ DestroyedFirst /\ ForwardOrder) ]_vars

\* C20 without the order of the destructions
C20_EachOnceThenBlock ==
  [][ Released => (OldReleased /\ DestroyedFirst) ]_vars

\* the step is a call of op on v with the trait set, made when v owns a
\* block and the two allocators compare unequal
Propagating(op, v, trait) ==
  /\ last'.op = op
  /\ last'.v = v
  /\ trait
  /\ ~cfg.iae
  /\ vec[v].m_alloc # vec[Other(v)].m_alloc
  /\ vec[v].m_begin # Null
  /\ heap[vec[v].m_begin].st = "live"

\* every deallocation of a block that a vector held before the call is made
\* on the allocator that allocated the block
OwnAllocator ==
  \A j \in Events("deallocate")' :
    (\E u \in Vecs : vec[u].m_begin = log'[j].b)
    => (\/ log'[j].al = heap[log'[j].b].al
        \/ \E a \in Events("allocate")' : a < j /\ log'[a].b = log'[j].b)

(***************************************************************************)
(* C21: in a move assignment with propagate_on_container_move_assignment   *)
(* set and unequal allocators, the target's old block is deallocated on    *)
(* the target's original allocator, the one that allocated it, before the  *)
(* source's allocator is adopted; no block is passed to deallocate of an   *)
(* allocator that compares unequal to the one that allocated it.           *)
(***************************************************************************)
C21_OriginalAllocator ==
  [][ \A v \in Vecs :
        Propagating("move_assign", v, cfg.pocma)
        => /\ \A j \in Events("deallocate")' :
                log'[j].b = vec[v].m_begin => log'[j].al = vec[v].m_alloc
           /\ OwnAllocator ]_vars

\* what does hold of that move assignment: the old block is deallocated
\* once, after its elements were destroyed, and the source's allocator and
\* pointers are adopted
C21_ReleasedAndAdopted ==
  [][ \A v \in Vecs :
        Propagating("move_assign", v, cfg.pocma)
        => /\ Cardinality({j \in Events("deallocate")' : log'[j].b = vec[v].m_begin}) = 1
           /\ \A j \in Events("deallocate")' : log'[j].k = 0
           /\ vec'[v].m_alloc = vec[Other(v)].m_alloc
           /\ Elems(v)' = Elems(Other(v)) ]_vars

\* no call recorded in the step is made on a block that has been
\* deallocated: no second deallocation, no construction or destruction in it
NoUseAfterRelease == \A j \in 1..Len(log') : log'[j].st # "freed"

(***************************************************************************)
(* C22: in a copy assignment with propagate_on_container_copy_assignment   *)
(* set and unequal allocators, once the target's storage has been released *)
(* the target holds no reference to it, so the rest of the assignment      *)
(* neither uses a slot of the released block nor deallocates it a second   *)
(* time; over any sequence of operations every allocated block is          *)
(* deallocated at most once.                                               *)
(***************************************************************************)
C22_ReleasedOnce ==
  [][ /\ \A v \in Vecs :
           Propagating("copy_assign", v, cfg.pocca)
           => /\ NoUseAfterRelease
              /\ vec'[v].m_begin # Null => heap'[vec'[v].m_begin].st = "live"
      /\ \A j \in Events("deallocate")' : log'[j].st = "live" ]_vars

\* C22 for the assignments that do not release the target's storage ahead
\* of the copy (equal allocators, or the trait not set), made when no vector
\* points to a released block
C22_WithoutRelease ==
  [][ \A v \in Vecs :
        /\ last'.op = "copy_assign"
        /\ last'.v = v
        /\ ~Propagating("copy_assign", v, cfg.pocca)
        /\ \A u \in Vecs : vec[u].m_begin # Null => heap[vec[u].m_begin].st = "live"
        => /\ NoUseAfterRelease
           /\ \A u \in Vecs : vec'[u].m_begin # Null => heap'[vec'[u].m_begin].st = "live" ]_vars

\* the two uses of the released block that C22 excludes, each alone
C22_NoSecondDeallocation ==
  [][ \A v \in Vecs :
        Propagating("copy_assign", v, cfg.pocca)
        => \A j \in Events("deallocate")' : log'[j].st = "live" ]_vars

C22_NoWriteAfterRelease ==
  [][ \A v \in Vecs :
        Propagating("copy_assign", v, cfg.pocca)
        => \A j \in Events("construct")' : log'[j].st = "live" ]_vars

====
